---- MODULE Spec2Model ----
(***************************************************************************)
(* The HTTP boundary layer of src/src/app.ts: five route handlers over the *)
(* user service of @smendivil/user and the terminal error handler.         *)
(*                                                                         *)
(* A request occupies one client slot.  JavaScript runs a handler to its   *)
(* await in one step, the service's operation settles its promise in a     *)
(* second step, and the handler's continuation runs in a third.           *)
(***************************************************************************)
EXTENDS Integers, Sequences, FiniteSets, TLC

VARIABLES
    users,          \* the repository: generated id -> stored user
    nextId,         \* the next identity the repository generates
    pc,             \* slot -> "idle" | "awaiting" | "settled" | "sent"
    req,            \* slot -> the request being served
    call,           \* slot -> the service call the handler made for it
    result,         \* slot -> the settled promise of that call
    resp,           \* slot -> the response written to res
    handlerRuns,    \* slot -> route handlers entered for the request
    translatorRuns, \* slot -> passes through errorHandler for the request
    responses,      \* slot -> responses sent for the request
    deleted204,     \* ids whose DELETE has been answered 204
    before          \* slot -> the repository as the service found it

vars == <<users, nextId, pc, req, call, result, resp,
          handlerRuns, translatorRuns, responses, deleted204, before>>

(***************************************************************************)
(* Bounds and input sets                                                   *)
(***************************************************************************)
MaxUsers == 2
MaxQueryLen == 3

Clients == {"c1", "c2"}
SeqClients == {"c1"}

GeneratedIds == 1..MaxUsers
\* 0 stands for an id the repository never generates ('nonexistent-id')
PathIds == 0..MaxUsers

\* JavaScript's undefined and null as body values
Undefined == "<undefined>"
Null == "<null>"

Usernames == {"alice", "bob"}
Emails == {"a@x.io", "b@x.io"}
PhoneNumbers == {"111", "222"}

PostBodies ==
    [username: Usernames \cup {Undefined, Null, ""},
     email: Emails \cup {Undefined, Null, ""},
     phoneNumber: PhoneNumbers \cup {Undefined, Null, ""}]

PutBodies ==
    [username: Usernames \cup {Undefined},
     email: Emails \cup {Undefined},
     phoneNumber: PhoneNumbers \cup {Undefined}]

\* Values a service operation can reject with: with or without a message,
\* with or without a status code.
ServiceErrors ==
    { [message |-> "Database error"],
      [message |-> "Validation error", statusCode |-> 422],
      [statusCode |-> 503] }

(***************************************************************************)
(* Query strings and parseInt                                              *)
(***************************************************************************)
QueryChars == {"-", "0", "1", "a"}

StringsUpTo(n) == UNION { [1..k -> QueryChars] : k \in 0..n }

\* req.query.x: <<>> when the parameter is absent, <<s>> when it is the string s
QueryValues == {<<>>} \cup { <<s>> : s \in StringsUpTo(MaxQueryLen) }

DigitChars == <<"0", "1", "2", "3", "4", "5", "6", "7", "8", "9">>

IsDigit(c) == \E i \in DOMAIN DigitChars : DigitChars[i] = c

DigitVal(c) == (CHOOSE i \in DOMAIN DigitChars : DigitChars[i] = c) - 1

RECURSIVE DigitsValue(_, _, _)
\* the value of the longest run of digits of s from position i on
DigitsValue(s, i, acc) ==
    IF i > Len(s) \/ ~IsDigit(s[i]) THEN acc
    ELSE DigitsValue(s, i + 1, 10 * acc + DigitVal(s[i]))

\* parseInt(q): <<>> is NaN, <<n>> the integer n.  An absent parameter is
\* parsed as the text "undefined", which has no leading digit.  Leading
\* white space, "+" and the 0x prefix are not in QueryChars.
parseInt(q) ==
    IF q = <<>> THEN <<>>
    ELSE LET s == q[1]
             neg == Len(s) >= 1 /\ s[1] = "-"
             from == IF neg THEN 2 ELSE 1
         IN  IF from > Len(s) \/ ~IsDigit(s[from]) THEN <<>>
             ELSE LET n == DigitsValue(s, from, 0)
                  IN  <<IF neg THEN 0 - n ELSE n>>

\* x || d on a parseInt result: NaN and 0 are falsy
OrDefault(x, d) == IF x = <<>> \/ x[1] = 0 THEN d ELSE x[1]

Max(a, b) == IF a >= b THEN a ELSE b
Min(a, b) == IF a <= b THEN a ELSE b

DefaultPage == 1
DefaultLimit == 10
MaxLimit == 100

\* LimitOf without the cap of 100
LimitOfNoCap(query) ==
    Max(1, OrDefault(parseInt(query.limit), DefaultLimit))

PageOf(query) == Max(1, OrDefault(parseInt(query.page), DefaultPage))

LimitOf(query) ==
    Min(MaxLimit, Max(1, OrDefault(parseInt(query.limit), DefaultLimit)))

(***************************************************************************)
(* Requests                                                                *)
(***************************************************************************)
NoReq == [route |-> "none"]
NoCall == [op |-> "none"]
Pending == [settled |-> "pending"]
NoResp == [status |-> 0]

PostReq(body) == [route |-> "POST /users", body |-> body]
ListReq(query) == [route |-> "GET /users", query |-> query]
GetReq(id) == [route |-> "GET /users/:id", id |-> id]
PutReq(id, body) == [route |-> "PUT /users/:id", id |-> id, body |-> body]
DeleteReq(id) == [route |-> "DELETE /users/:id", id |-> id]

Truthy(v) == v \notin {Undefined, Null, ""}

MissingFields == [message |-> "Missing required fields", statusCode |-> 400]
UserNotFound == [message |-> "User not found", statusCode |-> 404]

(***************************************************************************)
(* The error translator                                                    *)
(***************************************************************************)
\* errorHandler answering 500 whatever the error carries
errorHandlerAlways500(err) ==
    [status |-> 500,
     body |-> IF "message" \in DOMAIN err
              THEN [error |-> err.message, status |-> 500]
              ELSE [status |-> 500]]

\* res.status(statusCode).json({error: err.message, status: statusCode});
\* JSON drops a key whose value is undefined
errorHandler(err) ==
    LET statusCode ==
            IF "statusCode" \in DOMAIN err /\ err.statusCode # 0
            THEN err.statusCode ELSE 500
    IN  [status |-> statusCode,
         body |-> IF "message" \in DOMAIN err
                  THEN [error |-> err.message, status |-> statusCode]
                  ELSE [status |-> statusCode]]

(***************************************************************************)
(* The user service (external collaborator)                                *)
(***************************************************************************)
NoUsers == [i \in {} |-> 0]

\* ids of the stored users in ascending order
RECURSIVE SortedIds(_)
SortedIds(S) ==
    IF S = {} THEN <<>>
    ELSE LET m == CHOOSE x \in S : \A y \in S : x <= y
         IN  <<m>> \o SortedIds(S \ {m})

\* add(username, email, phoneNumber) -> User
addUser(store, nid, username, email, phoneNumber) ==
    LET user == [id |-> nid, username |-> username, email |-> email,
                 phoneNumber |-> phoneNumber]
    IN  [users |-> [i \in DOMAIN store \cup {nid} |->
                        IF i = nid THEN user ELSE store[i]],
         nextId |-> nid + 1,
         result |-> [settled |-> "resolved", value |-> user]]

\* list(params) -> PagedResult
getAllUsers(store, nid, params) ==
    LET ids == SortedIds(DOMAIN store)
        total == Len(ids)
        first == (params.page - 1) * params.limit + 1
        last == Min(total, params.page * params.limit)
        data == [k \in 1..Max(0, last - first + 1) |-> store[ids[first + k - 1]]]
    IN  [users |-> store,
         nextId |-> nid,
         result |-> [settled |-> "resolved",
                     value |-> [data |-> data, total |-> total,
                                page |-> params.page, limit |-> params.limit,
                                hasNext |-> params.page * params.limit < total]]]

\* getById(id) -> User | absent
getUserById(store, nid, userId) ==
    [users |-> store,
     nextId |-> nid,
     result |-> IF userId \in DOMAIN store
                THEN [settled |-> "resolved", value |-> store[userId]]
                ELSE [settled |-> "resolved"]]

\* update(id, username?, email?, phoneNumber?) -> User | absent;
\* an undefined field means no change
updateUser(store, nid, userId, username, email, phoneNumber) ==
    IF userId \notin DOMAIN store
    THEN [users |-> store, nextId |-> nid, result |-> [settled |-> "resolved"]]
    ELSE LET old == store[userId]
             user == [id |-> old.id,
                      username |-> IF username = Undefined
                                   THEN old.username ELSE username,
                      email |-> IF email = Undefined THEN old.email ELSE email,
                      phoneNumber |-> IF phoneNumber = Undefined
                                      THEN old.phoneNumber ELSE phoneNumber]
         IN  [users |-> [store EXCEPT ![userId] = user],
              nextId |-> nid,
              result |-> [settled |-> "resolved", value |-> user]]

\* delete(id) -> boolean
deleteUser(store, nid, userId) ==
    [users |-> [i \in DOMAIN store \ {userId} |-> store[i]],
     nextId |-> nid,
     result |-> [settled |-> "resolved", value |-> userId \in DOMAIN store]]

\* the operation a handler's call names, run on the repository
ServiceRun(c, store, nid) ==
    CASE c.op = "addUser" ->
            addUser(store, nid, c.username, c.email, c.phoneNumber)
      [] c.op = "getAllUsers" -> getAllUsers(store, nid, c.params)
      [] c.op = "getUserById" -> getUserById(store, nid, c.id)
      [] c.op = "updateUser" ->
            updateUser(store, nid, c.id, c.username, c.email, c.phoneNumber)
      [] c.op = "deleteUser" -> deleteUser(store, nid, c.id)

(***************************************************************************)
(* The handlers, each up to its await and from its await on                *)
(***************************************************************************)
Throw(err) == [kind |-> "throw", error |-> err]
Call(c) == [kind |-> "call", call |-> c]
Reply(response) == [kind |-> "reply", response |-> response]

\* the presence check without phoneNumber
PostValidNoPhone(body) == Truthy(body.username) /\ Truthy(body.email)

PostValid(body) ==
    Truthy(body.username) /\ Truthy(body.email) /\ Truthy(body.phoneNumber)

\* the create handler passing email and phoneNumber in each other's place
PostUsersBeginSwapped(body) ==
    IF ~PostValid(body) THEN Throw(MissingFields)
    ELSE Call([op |-> "addUser", username |-> body.username,
               email |-> body.phoneNumber, phoneNumber |-> body.email])

PostUsersBegin(body) ==
    IF ~PostValid(body) THEN Throw(MissingFields)
    ELSE Call([op |-> "addUser", username |-> body.username,
               email |-> body.email, phoneNumber |-> body.phoneNumber])

PostUsersThen(res) ==
    IF res.settled = "rejected" THEN Throw(res.error)
    ELSE Reply([status |-> 201, body |-> res.value])

GetUsersBegin(query) ==
    Call([op |-> "getAllUsers",
          params |-> [page |-> PageOf(query), limit |-> LimitOf(query)]])

GetUsersThen(res) ==
    IF res.settled = "rejected" THEN Throw(res.error)
    ELSE Reply([status |-> 200, body |-> res.value])

GetUserByIdBegin(id) == Call([op |-> "getUserById", id |-> id])

\* the get handler without its not-found check
GetUserByIdThenNoCheck(res) ==
    IF res.settled = "rejected" THEN Throw(res.error)
    ELSE IF "value" \notin DOMAIN res THEN Reply([status |-> 200])
    ELSE Reply([status |-> 200, body |-> res.value])

GetUserByIdThen(res) ==
    IF res.settled = "rejected" THEN Throw(res.error)
    ELSE IF "value" \notin DOMAIN res THEN Throw(UserNotFound)
    ELSE Reply([status |-> 200, body |-> res.value])

\* the update handler leaving phoneNumber out of its call
PutUserBeginNoPhone(id, body) ==
    Call([op |-> "updateUser", id |-> id, username |-> body.username,
          email |-> body.email, phoneNumber |-> Undefined])

PutUserBegin(id, body) ==
    Call([op |-> "updateUser", id |-> id, username |-> body.username,
          email |-> body.email, phoneNumber |-> body.phoneNumber])

PutUserThen(res) ==
    IF res.settled = "rejected" THEN Throw(res.error)
    ELSE IF "value" \notin DOMAIN res THEN Throw(UserNotFound)
    ELSE Reply([status |-> 200, body |-> res.value])

DeleteUserBegin(id) == Call([op |-> "deleteUser", id |-> id])

\* the delete handler with its check of success inverted
DeleteUserThenInverted(res) ==
    IF res.settled = "rejected" THEN Throw(res.error)
    ELSE IF res.value THEN Throw(UserNotFound)
    ELSE Reply([status |-> 204])

\* the delete handler without its not-found check
DeleteUserThenNoCheck(res) ==
    IF res.settled = "rejected" THEN Throw(res.error)
    ELSE Reply([status |-> 204])

DeleteUserThen(res) ==
    IF res.settled = "rejected" THEN Throw(res.error)
    ELSE IF ~res.value THEN Throw(UserNotFound)
    ELSE Reply([status |-> 204])

Begin(request) ==
    CASE request.route = "POST /users" -> PostUsersBegin(request.body)
      [] request.route = "GET /users" -> GetUsersBegin(request.query)
      [] request.route = "GET /users/:id" -> GetUserByIdBegin(request.id)
      [] request.route = "PUT /users/:id" ->
            PutUserBegin(request.id, request.body)
      [] request.route = "DELETE /users/:id" -> DeleteUserBegin(request.id)

Then(request, res) ==
    CASE request.route = "POST /users" -> PostUsersThen(res)
      [] request.route = "GET /users" -> GetUsersThen(res)
      [] request.route = "GET /users/:id" -> GetUserByIdThen(res)
      [] request.route = "PUT /users/:id" -> PutUserThen(res)
      [] request.route = "DELETE /users/:id" -> DeleteUserThen(res)

(***************************************************************************)
(* State machine                                                           *)
(***************************************************************************)
Init ==
    /\ users = NoUsers
    /\ nextId = 1
    /\ pc = [c \in Clients |-> "idle"]
    /\ req = [c \in Clients |-> NoReq]
    /\ call = [c \in Clients |-> NoCall]
    /\ result = [c \in Clients |-> Pending]
    /\ resp = [c \in Clients |-> NoResp]
    /\ handlerRuns = [c \in Clients |-> 0]
    /\ translatorRuns = [c \in Clients |-> 0]
    /\ responses = [c \in Clients |-> 0]
    /\ deleted204 = {}
    /\ before = [c \in Clients |-> NoUsers]

\* forwarding an error after the handler has already responded
ForwardTwice(c, err, passes, sent) ==
    /\ translatorRuns' = [translatorRuns EXCEPT ![c] = passes + 1]
    /\ responses' = [responses EXCEPT ![c] = sent + 2]
    /\ resp' = [resp EXCEPT ![c] = errorHandler(err)]
    /\ pc' = [pc EXCEPT ![c] = "sent"]

\* next(error): express hands the error to errorHandler, which responds
Forward(c, err, passes, sent) ==
    /\ translatorRuns' = [translatorRuns EXCEPT ![c] = passes + 1]
    /\ responses' = [responses EXCEPT ![c] = sent + 1]
    /\ resp' = [resp EXCEPT ![c] = errorHandler(err)]
    /\ pc' = [pc EXCEPT ![c] = "sent"]

\* res.status(..).json(..) or res.status(204).send() in the handler
Respond(c, response, passes, sent) ==
    /\ translatorRuns' = [translatorRuns EXCEPT ![c] = passes]
    /\ responses' = [responses EXCEPT ![c] = sent + 1]
    /\ resp' = [resp EXCEPT ![c] = response]
    /\ pc' = [pc EXCEPT ![c] = "sent"]

\* A request arrives on a free slot and its handler runs to its await, or
\* to the response when it throws before calling the service.
Receive(c, request) ==
    /\ pc[c] = "idle"
    /\ req' = [req EXCEPT ![c] = request]
    /\ handlerRuns' = [handlerRuns EXCEPT ![c] = 1]
    /\ result' = [result EXCEPT ![c] = Pending]
    /\ LET out == Begin(request)
       IN  IF out.kind = "throw"
           THEN /\ call' = [call EXCEPT ![c] = NoCall]
                /\ Forward(c, out.error, 0, 0)
           ELSE /\ call' = [call EXCEPT ![c] = out.call]
                /\ translatorRuns' = [translatorRuns EXCEPT ![c] = 0]
                /\ responses' = [responses EXCEPT ![c] = 0]
                /\ resp' = [resp EXCEPT ![c] = NoResp]
                /\ pc' = [pc EXCEPT ![c] = "awaiting"]
    /\ UNCHANGED <<users, nextId, deleted204, before>>

PostUsers(c, body) == Receive(c, PostReq(body))
GetUsers(c, query) == Receive(c, ListReq(query))
GetUserById(c, id) == Receive(c, GetReq(id))
PutUser(c, id, body) == Receive(c, PutReq(id, body))
DeleteUser(c, id) == Receive(c, DeleteReq(id))

\* The service runs the awaited operation atomically and resolves.
ServiceResolves(c) ==
    /\ pc[c] = "awaiting"
    /\ call[c].op = "addUser" => nextId <= MaxUsers
    /\ LET out == ServiceRun(call[c], users, nextId)
       IN  /\ users' = out.users
           /\ nextId' = out.nextId
           /\ result' = [result EXCEPT ![c] = out.result]
    /\ pc' = [pc EXCEPT ![c] = "settled"]
    /\ before' = [before EXCEPT ![c] = users]
    /\ UNCHANGED <<req, call, resp, handlerRuns, translatorRuns, responses,
                   deleted204>>

\* The service rejects the awaited operation and leaves the store alone.
ServiceRejects(c, err) ==
    /\ pc[c] = "awaiting"
    /\ result' = [result EXCEPT ![c] = [settled |-> "rejected", error |-> err]]
    /\ pc' = [pc EXCEPT ![c] = "settled"]
    /\ before' = [before EXCEPT ![c] = users]
    /\ UNCHANGED <<users, nextId, req, call, resp, handlerRuns,
                   translatorRuns, responses, deleted204>>

\* The handler resumes after its await.
Resume(c) ==
    /\ pc[c] = "settled"
    /\ LET out == Then(req[c], result[c])
       IN  /\ IF out.kind = "throw"
              THEN Forward(c, out.error, translatorRuns[c], responses[c])
              ELSE Respond(c, out.response, translatorRuns[c], responses[c])
           /\ deleted204' =
                IF out.kind = "reply" /\ req[c].route = "DELETE /users/:id"
                THEN deleted204 \cup {req[c].id} ELSE deleted204
    /\ UNCHANGED <<users, nextId, req, call, result, handlerRuns, before>>

\* The response has gone out and the slot is free for the next request.
Close(c) ==
    /\ pc[c] = "sent"
    /\ pc' = [pc EXCEPT ![c] = "idle"]
    /\ req' = [req EXCEPT ![c] = NoReq]
    /\ call' = [call EXCEPT ![c] = NoCall]
    /\ result' = [result EXCEPT ![c] = Pending]
    /\ resp' = [resp EXCEPT ![c] = NoResp]
    /\ handlerRuns' = [handlerRuns EXCEPT ![c] = 0]
    /\ translatorRuns' = [translatorRuns EXCEPT ![c] = 0]
    /\ responses' = [responses EXCEPT ![c] = 0]
    /\ before' = [before EXCEPT ![c] = NoUsers]
    /\ UNCHANGED <<users, nextId, deleted204>>

\* Query strings of the requests served between the other routes
FewQueryValues == {<<>>, << <<"0">> >>, << <<"1", "1">> >>, << <<"a">> >>}

Step(c, queries) ==
    \/ pc[c] = "idle" /\ \E body \in PostBodies : PostUsers(c, body)
    \/ pc[c] = "idle" /\ \E query \in [page : queries, limit : queries] :
                            GetUsers(c, query)
    \/ pc[c] = "idle" /\ \E id \in PathIds : GetUserById(c, id)
    \/ pc[c] = "idle" /\ \E id \in PathIds, body \in PutBodies :
                            PutUser(c, id, body)
    \/ pc[c] = "idle" /\ \E id \in PathIds : DeleteUser(c, id)
    \/ ServiceResolves(c)
    \/ \E err \in ServiceErrors : ServiceRejects(c, err)
    \/ Resume(c)
    \/ Close(c)

\* one request at a time, of every route
Next == \E c \in SeqClients : Step(c, FewQueryValues)

Spec == Init /\ [][Next]_vars

\* GET /users alone, over every query string of the bound
ListStep(c) ==
    \/ pc[c] = "idle" /\ \E query \in [page : QueryValues, limit : QueryValues] :
                            GetUsers(c, query)
    \/ ServiceResolves(c)
    \/ \E err \in ServiceErrors : ServiceRejects(c, err)
    \/ Resume(c)
    \/ Close(c)

NextList == \E c \in SeqClients : ListStep(c)

SpecList == Init /\ [][NextList]_vars

\* Bodies of the users created before and between concurrent deletes
FewPostBodies ==
    { [username |-> "alice", email |-> "a@x.io", phoneNumber |-> "111"],
      [username |-> "bob", email |-> "b@x.io", phoneNumber |-> "222"] }

\* creates and deletes of two clients, interleaved at every await
ConcStep(c) ==
    \/ pc[c] = "idle" /\ \E body \in FewPostBodies : PostUsers(c, body)
    \/ pc[c] = "idle" /\ \E id \in PathIds : DeleteUser(c, id)
    \/ ServiceResolves(c)
    \/ \E err \in ServiceErrors : ServiceRejects(c, err)
    \/ Resume(c)
    \/ Close(c)

NextConc == \E c \in Clients : ConcStep(c)

SpecConc == Init /\ [][NextConc]_vars

TypeOK ==
    /\ DOMAIN users \subseteq GeneratedIds
    /\ nextId \in 1..(MaxUsers + 1)
    /\ pc \in [Clients -> {"idle", "awaiting", "settled", "sent"}]

\* the service settles every awaited call and the event loop runs every
\* continuation that is ready
FairSpec ==
    /\ Spec
    /\ \A c \in SeqClients :
          /\ WF_vars(ServiceResolves(c) \/ \E err \in ServiceErrors :
                                               ServiceRejects(c, err))
          /\ WF_vars(Resume(c))

(***************************************************************************)
(* Vocabulary of the properties                                            *)
(***************************************************************************)
Missing(v) == v = Undefined \/ v = Null \/ v = ""

SomeFieldMissing(body) ==
    Missing(body.username) \/ Missing(body.email) \/ Missing(body.phoneNumber)

ByIdRoutes == {"GET /users/:id", "PUT /users/:id", "DELETE /users/:id"}

Is2xx(status) == status \in 200..299

ErrorBody(message, status) == [error |-> message, status |-> status]

ErrorResponse(message, status) ==
    [status |-> status, body |-> ErrorBody(message, status)]

Rejected(c) == result[c].settled = "rejected"
Resolved(c) == result[c].settled = "resolved"

UserKeys == {"id", "username", "email", "phoneNumber"}
PagedResultKeys == {"data", "total", "page", "limit", "hasNext"}

\* C1: a POST /users with a missing, null or empty required field is
\* answered 400 "Missing required fields" in the step that receives it, with
\* no call to the service's add and the stored users unchanged.
C1_MissingFieldsRejected ==
    /\ [](\A c \in Clients :
            (req[c].route = "POST /users" /\ SomeFieldMissing(req[c].body))
            => /\ pc[c] = "sent"
               /\ call[c] = NoCall
               /\ resp[c] = ErrorResponse("Missing required fields", 400))
    /\ [][\A c \in Clients :
            (req'[c] # req[c] /\ req'[c].route = "POST /users"
             /\ SomeFieldMissing(req'[c].body))
            => users' = users /\ nextId' = nextId]_vars

C1_Witness ==
    \E c \in Clients :
        /\ pc[c] = "sent"
        /\ req[c].route = "POST /users"
        /\ req[c].body.username = "alice"
        /\ req[c].body.email = ""
        /\ req[c].body.phoneNumber = Null
        /\ resp[c].status = 400
        /\ users # NoUsers

\* C2: when the service rejects the awaited call, the response carries the
\* rejection's status code if it has one, else 500, in the status line and
\* in the body, and the rejection's message as the error field.
C2_ServiceErrorSurfaces ==
    \A c \in Clients :
        (pc[c] = "sent" /\ Rejected(c))
        => LET e == result[c].error
               code == IF "statusCode" \in DOMAIN e THEN e.statusCode ELSE 500
           IN  /\ resp[c].status = code
               /\ "body" \in DOMAIN resp[c]
               /\ resp[c].body.status = code
               /\ "message" \in DOMAIN e
                    => /\ "error" \in DOMAIN resp[c].body
                       /\ resp[c].body.error = e.message

C2_Witness ==
    \E c \in Clients :
        /\ pc[c] = "sent"
        /\ req[c].route = "DELETE /users/:id"
        /\ req[c].id \in DOMAIN users
        /\ result[c] = [settled |-> "rejected",
                        error |-> [message |-> "Validation error",
                                   statusCode |-> 422]]
        /\ resp[c] = ErrorResponse("Validation error", 422)

\* C3 (as claimed): the page passed to the service's list is
\* max(1, parsedPage) and the limit min(100, max(1, parsedLimit)), the
\* default replacing only a parse failure; a limit parsing to 0 becomes 1.
C3_NormalizedAsClaimed ==
    \A c \in Clients :
        call[c].op = "getAllUsers"
        => LET page == parseInt(req[c].query.page)
               limit == parseInt(req[c].query.limit)
               parsedPage == IF page = <<>> THEN 1 ELSE page[1]
               parsedLimit == IF limit = <<>> THEN 10 ELSE limit[1]
           IN  /\ call[c].params.page = Max(1, parsedPage)
               /\ call[c].params.limit = Min(100, Max(1, parsedLimit))

\* C4 (as claimed): GET, PUT and DELETE /users/:id on an id that is not in
\* the store are answered 404 "User not found", and the store is left as it
\* was.
C4_UnknownIdAlways404 ==
    \A c \in Clients :
        (pc[c] = "sent" /\ req[c].route \in ByIdRoutes
         /\ req[c].id \notin DOMAIN before[c])
        => /\ resp[c] = ErrorResponse("User not found", 404)
           /\ users = before[c]

\* C4 (amended): GET, PUT and DELETE /users/:id on an id that is not in the
\* store leave the store as it was, and are answered 404 "User not found"
\* whenever the service's operation itself does not fail.
C4_UnknownId404UnlessServiceFails ==
    \A c \in Clients :
        (pc[c] = "sent" /\ req[c].route \in ByIdRoutes
         /\ req[c].id \notin DOMAIN before[c])
        => /\ users = before[c]
           /\ Resolved(c) => resp[c] = ErrorResponse("User not found", 404)

C4_Witness ==
    \E c \in Clients :
        /\ pc[c] = "sent"
        /\ req[c].route = "DELETE /users/:id"
        /\ req[c].id = 2
        /\ DOMAIN before[c] = {1}
        /\ Resolved(c)
        /\ resp[c].status = 404
        /\ users = before[c]

\* C5 (as claimed): every response sent is a success payload (a User, a
\* PagedResult or no body) with a 2xx status, or exactly the two-field body
\* {error, status} with a non-2xx status.
C5_ResponseShape ==
    \A c \in Clients :
        pc[c] = "sent"
        => LET r == resp[c]
           IN  \/ /\ Is2xx(r.status)
                  /\ \/ "body" \notin DOMAIN r
                     \/ DOMAIN r.body = UserKeys
                     \/ DOMAIN r.body = PagedResultKeys
               \/ /\ ~Is2xx(r.status)
                  /\ "body" \in DOMAIN r
                  /\ DOMAIN r.body = {"error", "status"}
                  /\ r.body.status = r.status

\* the fault of a request, if it has one
Fault(c) ==
    \/ req[c].route = "POST /users" /\ SomeFieldMissing(req[c].body)
    \/ Rejected(c)
    \/ /\ Resolved(c)
       /\ req[c].route \in ByIdRoutes
       /\ req[c].id \notin DOMAIN before[c]

\* C6: a request is in one handler; while its call is awaited nothing has
\* been sent and the translator has not run; it always reaches "sent", and
\* there exactly one response has gone out, through exactly one pass of the
\* translator if the request had a fault and none if it had not; a request
\* that is answered is never taken up again.
C6_OneResponsePerRequest ==
    /\ [](\A c \in Clients :
            /\ pc[c] # "idle" => handlerRuns[c] = 1
            /\ pc[c] \in {"awaiting", "settled"}
                 => responses[c] = 0 /\ translatorRuns[c] = 0
            /\ pc[c] = "sent"
                 => /\ responses[c] = 1
                    /\ translatorRuns[c] = IF Fault(c) THEN 1 ELSE 0
                    /\ Fault(c) <=> ~Is2xx(resp[c].status))
    /\ [][\A c \in Clients :
            pc[c] = "sent" => pc'[c] \in {"sent", "idle"}]_vars
    /\ \A c \in Clients : (pc[c] \in {"awaiting", "settled"}) ~> (pc[c] = "sent")

C6_Witness ==
    \E c \in Clients :
        /\ pc[c] = "sent"
        /\ req[c].route = "PUT /users/:id"
        /\ Rejected(c)
        /\ translatorRuns[c] = 1
        /\ responses[c] = 1

\* C7: a POST /users whose three fields are all present and non-empty and
\* whose add succeeds is answered 201 with a user that has a newly generated
\* id and the three submitted fields, and the store gains that user and
\* nothing else changes in it.
C7_CreatedUserReturned ==
    \A c \in Clients :
        (pc[c] = "sent" /\ req[c].route = "POST /users"
         /\ ~SomeFieldMissing(req[c].body) /\ Resolved(c))
        => /\ resp[c].status = 201
           /\ "body" \in DOMAIN resp[c]
           /\ DOMAIN resp[c].body = UserKeys
           /\ resp[c].body.username = req[c].body.username
           /\ resp[c].body.email = req[c].body.email
           /\ resp[c].body.phoneNumber = req[c].body.phoneNumber
           /\ resp[c].body.id \notin DOMAIN before[c]
           /\ DOMAIN users = DOMAIN before[c] \cup {resp[c].body.id}
           /\ users[resp[c].body.id] = resp[c].body
           /\ \A i \in DOMAIN before[c] : users[i] = before[c][i]

C7_Witness ==
    \E c \in Clients :
        /\ pc[c] = "sent"
        /\ req[c].route = "POST /users"
        /\ req[c].body = [username |-> "bob", email |-> "a@x.io",
                          phoneNumber |-> "222"]
        /\ resp[c].status = 201
        /\ DOMAIN before[c] = {1}
        /\ DOMAIN users = {1, 2}

\* C8 (as claimed): after a DELETE of an id was answered 204, every GET of
\* that id is answered 404; a GET of an id that is in the store is answered
\* 200 with that user.
C8_DeletedNeverFound ==
    \A c \in Clients :
        (pc[c] = "sent" /\ req[c].route = "GET /users/:id")
        => /\ req[c].id \in deleted204 => resp[c].status = 404
           /\ req[c].id \in DOMAIN before[c]
                => resp[c] = [status |-> 200, body |-> before[c][req[c].id]]

\* C8 (amended): after a DELETE of an id was answered 204, no GET of that id
\* is answered 200, and it is answered 404 unless the service's lookup
\* itself fails; a GET of an id that is in the store is answered 200 with
\* that user unless the lookup fails.
C8_DeletedNeverVisible ==
    \A c \in Clients :
        (pc[c] = "sent" /\ req[c].route = "GET /users/:id")
        => /\ req[c].id \in deleted204
                => /\ resp[c].status # 200
                   /\ Resolved(c) => resp[c] = ErrorResponse("User not found", 404)
           /\ (req[c].id \in DOMAIN before[c] /\ Resolved(c))
                => resp[c] = [status |-> 200, body |-> before[c][req[c].id]]

C8_Witness ==
    \E c \in Clients :
        /\ pc[c] = "sent"
        /\ req[c].route = "GET /users/:id"
        /\ req[c].id = 1
        /\ 1 \in deleted204
        /\ 2 \in DOMAIN users
        /\ Resolved(c)
        /\ resp[c].status = 404

\* the user a partial update of old by body should give
Merged(old, body) ==
    [id |-> old.id,
     username |-> IF body.username = Undefined
                  THEN old.username ELSE body.username,
     email |-> IF body.email = Undefined THEN old.email ELSE body.email,
     phoneNumber |-> IF body.phoneNumber = Undefined
                     THEN old.phoneNumber ELSE body.phoneNumber]

\* C9 (as claimed): a PUT /users/:id on an existing id is answered 200 with
\* the user whose supplied fields have the new values and whose other
\* fields and id are as before, and no other stored user changes.
C9_PartialUpdateAlways200 ==
    \A c \in Clients :
        (pc[c] = "sent" /\ req[c].route = "PUT /users/:id"
         /\ req[c].id \in DOMAIN before[c])
        => LET user == Merged(before[c][req[c].id], req[c].body)
           IN  /\ resp[c] = [status |-> 200, body |-> user]
               /\ users = [before[c] EXCEPT ![req[c].id] = user]

\* C9 (amended): a PUT /users/:id on an existing id changes no other stored
\* user, and when the service's update does not fail it is answered 200
\* with the user whose supplied fields have the new values and whose other
\* fields and id are as before, which is then the stored user.
C9_PartialUpdateUnlessServiceFails ==
    \A c \in Clients :
        (pc[c] = "sent" /\ req[c].route = "PUT /users/:id"
         /\ req[c].id \in DOMAIN before[c])
        => LET user == Merged(before[c][req[c].id], req[c].body)
           IN  /\ DOMAIN users = DOMAIN before[c]
               /\ \A i \in DOMAIN users \ {req[c].id} : users[i] = before[c][i]
               /\ Resolved(c)
                    => /\ resp[c] = [status |-> 200, body |-> user]
                       /\ users[req[c].id] = user

C9_Witness ==
    \E c \in Clients :
        /\ pc[c] = "sent"
        /\ req[c] = PutReq(1, [username |-> Undefined, email |-> "b@x.io",
                               phoneNumber |-> Undefined])
        /\ DOMAIN before[c] = {1, 2}
        /\ before[c][1].email = "a@x.io"
        /\ before[c][1].username = "bob"
        /\ Resolved(c)
        /\ resp[c].status = 200
        /\ users[1].email = "b@x.io"

\* C10: whatever the page and limit query strings, the call to the
\* service's list carries an integer page >= 1 and an integer limit in
\* 1..100, and the handler forwards no error but a rejection by the service.
C10_PaginationInRange ==
    \A c \in Clients :
        (pc[c] # "idle" /\ req[c].route = "GET /users")
        => /\ call[c].op = "getAllUsers"
           /\ call[c].params.page \in Nat
           /\ call[c].params.page >= 1
           /\ call[c].params.limit \in 1..100
           /\ translatorRuns[c] > 0 => Rejected(c)

C10_Witness ==
    \E c \in Clients :
        /\ pc[c] = "sent"
        /\ req[c].route = "GET /users"
        /\ req[c].query.page = << <<"-", "1">> >>
        /\ req[c].query.limit = << <<"1", "1", "1">> >>
        /\ call[c].params = [page |-> 1, limit |-> 100]
        /\ resp[c].status = 200

\* two clients whose DELETE /users/:id name the same id, an id that was in
\* the store when the first of the two calls reached the service, and whose
\* calls have both been settled
SameIdDeletes(c, d) ==
    /\ c # d
    /\ req[c].route = "DELETE /users/:id"
    /\ req[d].route = "DELETE /users/:id"
    /\ req[c].id = req[d].id
    /\ pc[c] \in {"settled", "sent"}
    /\ pc[d] \in {"settled", "sent"}
    /\ req[c].id \in DOMAIN before[c] \cup DOMAIN before[d]

Answered(c, response) == pc[c] = "sent" => resp[c] = response

\* the step in which the service settles client c's delete removes at most
\* the user of that id and changes no other stored user
DeleteTouchesOnlyItsId(c) ==
    (pc[c] = "awaiting" /\ pc'[c] = "settled"
     /\ req[c].route = "DELETE /users/:id")
    => /\ DOMAIN users \ {req[c].id} = DOMAIN users' \ {req[c].id}
       /\ \A i \in DOMAIN users \ {req[c].id} : users'[i] = users[i]
       /\ result'[c].settled = "resolved" => req[c].id \notin DOMAIN users'
       /\ nextId' = nextId

\* C11 (as claimed): of two DELETE /users/:id for the same existing id,
\* however their steps interleave, exactly one is answered 204 and the other
\* 404 "User not found".
C11_OneDeleteWinsAlways ==
    \A c \in Clients, d \in Clients :
        (SameIdDeletes(c, d) /\ pc[c] = "sent" /\ pc[d] = "sent")
        => \/ /\ resp[c] = [status |-> 204]
              /\ resp[d] = ErrorResponse("User not found", 404)
           \/ /\ resp[d] = [status |-> 204]
              /\ resp[c] = ErrorResponse("User not found", 404)

\* C11 (amended): of two DELETE /users/:id for the same existing id, however
\* their steps interleave, at most one is answered 204 and at most one call
\* removes the user; when neither call to the service's delete fails, exactly
\* one call removes the user, that request is answered 204 and the other 404
\* "User not found"; a delete changes no stored user but the one it names.
C11_OneDeleteWinsUnlessServiceFails ==
    /\ [](\A c \in Clients, d \in Clients :
            SameIdDeletes(c, d)
            => /\ ~(resp[c].status = 204 /\ resp[d].status = 204)
               /\ ~(/\ Resolved(c) /\ result[c].value
                    /\ Resolved(d) /\ result[d].value)
               /\ (Resolved(c) /\ Resolved(d))
                    => /\ result[c].value # result[d].value
                       /\ req[c].id \notin DOMAIN users
                       /\ Answered(c, IF result[c].value
                                      THEN [status |-> 204]
                                      ELSE ErrorResponse("User not found", 404))
                       /\ Answered(d, IF result[d].value
                                      THEN [status |-> 204]
                                      ELSE ErrorResponse("User not found", 404)))
    /\ [][\A c \in Clients : DeleteTouchesOnlyItsId(c)]_vars

\* c2's delete reached the service first and removed user 1 while c1's
\* request was in flight; c1 has been answered 404 before c2 resumed, and
\* user 2 is still stored
C11_Witness ==
    /\ SameIdDeletes("c1", "c2")
    /\ req["c1"].id = 1
    /\ pc["c1"] = "sent"
    /\ pc["c2"] = "settled"
    /\ Resolved("c1") /\ Resolved("c2")
    /\ result["c2"].value
    /\ DOMAIN before["c2"] = {1, 2}
    /\ DOMAIN before["c1"] = {2}
    /\ resp["c1"] = ErrorResponse("User not found", 404)
    /\ DOMAIN users = {2}

====
